---- MODULE Spec2Model ----
(***************************************************************************)
(* MLFQ scheduler on FreeRTOS (Hassan-Darwish/MLFQ-FreeRTOS).              *)
(*                                                                         *)
(* The model holds the two tables of the program (the supervisor table of  *)
(* scheduler.c and the accountant table of tick_profiler.c), the expiry    *)
(* queue between the tick hook and the scheduler task, the kernel state    *)
(* the program reads and writes through FreeRTOS calls (tick count, task   *)
(* priorities, the running task, delays) and the position of the scheduler *)
(* task inside schedulerTask().                                            *)
(*                                                                         *)
(* Time is counted in ticks.  The tick rate is 1 kHz, so pdMS_TO_TICKS(ms) *)
(* is ms.  The workload tasks are A and C (CPU bound, never block within   *)
(* the horizon) and B (interactive: runs InteractiveRunTicks ticks, then   *)
(* blocks InteractiveBlockTicks ticks).                                    *)
(***************************************************************************)
EXTENDS Integers, Sequences, FiniteSets, TLC

VARIABLES
    g_taskTable,            \* scheduler.c: MLFQ_TCB_t g_taskTable[]
    g_profilerTable,        \* tick_profiler.c: TickProfilerTaskInfo_t g_taskTable[]
    g_expiredQueue,         \* tick_profiler.c: g_expiredQueue (FIFO of handles)
    g_schedulerTaskHandle,  \* tick_profiler.c: g_schedulerTaskHandle
    xTickCount,             \* kernel tick counter (TickType_t, 32 bit)
    uxPriority,             \* kernel priority of every task
    pxCurrentTCB,           \* the task the kernel is running
    pc,                     \* position of the scheduler task in schedulerTask()
    xLastBoostTime,         \* schedulerTask local
    xNow,                   \* schedulerTask local
    table_index,            \* loop index of performGlobalBoost
    utpTask,                \* updateTaskPriority argument: task
    utpLevel,               \* updateTaskPriority argument: newLevel
    utpRet,                 \* where updateTaskPriority returns to
    xDelay,                 \* ticks left of the scheduler task's vTaskDelay
    burst,                  \* run ticks of the current burst of each workload task
    sleep,                  \* ticks left of each workload task's vTaskDelay
    nCalls,                 \* API calls made so far (bounded)
    supTicks,               \* ticks that arrived while the scheduler task ran
    boosted,                \* performGlobalBoost completed in this iteration
    expiries,               \* checkForDemotion calls per task since it was last set HIGH
    demoted,                \* tasks checkForDemotion was applied to in this iteration
    lastCall,               \* the last API call made from main() and its outcome
    configMAX_PRIORITIES,   \* kernel configuration: number of priority levels
    enqueuedAt              \* per expiry enqueued and not yet handled: the tick of its send

vars == << g_taskTable, g_profilerTable, g_expiredQueue, g_schedulerTaskHandle,
           xTickCount, uxPriority, pxCurrentTCB, pc, xLastBoostTime, xNow,
           table_index, utpTask, utpLevel, utpRet, xDelay, burst, sleep,
           nCalls, supTicks, boosted, expiries, demoted, lastCall,
           configMAX_PRIORITIES, enqueuedAt >>

(***************************************************************************)
(* Bounds of the model.                                                    *)
(***************************************************************************)
\* TICK_PROFILER_MAX_TASKS (16 by default, overridable at build time).
MaxTasks == 2
\* MLFQ_BOOST_PERIOD_MS: a deployment constant (3000 in scheduler.h); the model
\* uses a shorter period so that a boost falls inside the horizon.
BoostPeriodMs == 60
\* The horizon: the tick interrupt stops after MaxTick ticks.
MaxTick == 120
\* registerTask calls made by main() before the kernel starts.
MaxRegisterCalls == 3
\* Ticks that may arrive while the scheduler task itself is running.
MaxSupTicks == 1
\* promoteInteractiveTask calls made by the interactive workload task.
MaxPromoteCalls == 1
\* The interactive workload: run ticks per burst, blocked ticks between bursts.
InteractiveRunTicks == 5
InteractiveBlockTicks == 10
\* Width of the model's unsigned words.
WordBits == 16

(***************************************************************************)
(* Program constants.                                                      *)
(***************************************************************************)
MLFQ_QUEUE_HIGH == 0
MLFQ_QUEUE_MEDIUM == 1
MLFQ_QUEUE_LOW == 2
MLFQ_TOP_PRIORITY_NUMBER == 5
MLFQ_TIME_SLICE_HIGH == 20
MLFQ_TIME_SLICE_MEDIUM == 50
MLFQ_TIME_SLICE_LOW == 100
SchedulerDelayMs == 10
WorkloadCreatePriority == 4
TICK_PROFILER_EXPIRED_QUEUE_LENGTH == MaxTasks * 2
\* Kernel configuration (FreeRTOSConfig.h is not part of the repository): the
\* tick rate, and the numbers of priority levels a build may have.  The
\* scheduler task is created at priority 6, so there are at least 7 levels;
\* with 7 a priority above the range is cut to 6, with more it outranks 6.
configTICK_RATE_HZ == 1000
MaxPrioritiesChoices == {MLFQ_TOP_PRIORITY_NUMBER + 2, MLFQ_TOP_PRIORITY_NUMBER + 3}

\* Unsigned arithmetic is modulo 2^WordBits.  The program's words have 32 bits;
\* TLC's integers end at 2^31 - 1, so the model's words are narrower.  Every
\* number the program compares (levels, priorities, quanta, tick counts within
\* the horizon) is far below the modulus, so a wrap happens exactly where it
\* happens on 32 bits.
UInt32 == 2 ^ WordBits

NULL == "NULL"
SchedHandle == "S"
IdleHandle == "IDLE"
MainContext == "MAIN"
Heavy == {"A", "C"}
Interactive == {"B"}
Tasks == Heavy \cup Interactive
Slots == 0 .. (MaxTasks - 1)
Levels == {MLFQ_QUEUE_HIGH, MLFQ_QUEUE_MEDIUM, MLFQ_QUEUE_LOW}

pdMS_TO_TICKS(ms) == (ms * configTICK_RATE_HZ) \div 1000
xBoostPeriod == pdMS_TO_TICKS(BoostPeriodMs)

(***************************************************************************)
(* scheduler.h / scheduler.c: pure parts.                                  *)
(***************************************************************************)
\* The macro applied to a parenthesised value, as in updateTaskPriority and
\* registerTask: (5U - level), unsigned 32 bit.
MLFQ_TO_RTOS_LEVEL_SETTER(level) == (MLFQ_TOP_PRIORITY_NUMBER - level) % UInt32

getQuantumForLevel(level) ==
    CASE level = MLFQ_QUEUE_HIGH   -> MLFQ_TIME_SLICE_HIGH
      [] level = MLFQ_QUEUE_MEDIUM -> MLFQ_TIME_SLICE_MEDIUM
      [] level = MLFQ_QUEUE_LOW    -> MLFQ_TIME_SLICE_LOW
      [] OTHER                     -> MLFQ_TIME_SLICE_LOW

\* Seeded fault for C17: a task at LOW is sent round to HIGH.
checkForDemotionLevel_Wraps(currentLevel) ==
    IF currentLevel < MLFQ_QUEUE_LOW
    THEN (MLFQ_TOP_PRIORITY_NUMBER - currentLevel + 1) % UInt32
    ELSE IF currentLevel = MLFQ_QUEUE_LOW THEN MLFQ_QUEUE_HIGH ELSE MLFQ_QUEUE_LOW

\* checkForDemotion: the level handed to updateTaskPriority.  The macro is
\* textual: MLFQ_TO_RTOS_LEVEL_SETTER(currentLevel + 1) expands to
\* (5U - currentLevel + 1).
checkForDemotionLevel(currentLevel) ==
    IF currentLevel < MLFQ_QUEUE_LOW
    THEN (MLFQ_TOP_PRIORITY_NUMBER - currentLevel + 1) % UInt32
    ELSE MLFQ_QUEUE_LOW

\* The first supervisor slot holding `task`, or -1.
schedulerSlotOf(table, task) ==
    IF \E i \in Slots : table[i].task_handle = task
    THEN CHOOSE i \in Slots :
         /\ table[i].task_handle = task
         /\ \A j \in 0 .. (i - 1) : table[j].task_handle # task
    ELSE -1

(***************************************************************************)
(* tick_profiler.c: the accountant table.                                  *)
(***************************************************************************)
findTaskIndex(table, task) ==
    IF task = NULL THEN -1
    ELSE IF \E i \in Slots : table[i].task = task
         THEN CHOOSE i \in Slots :
              /\ table[i].task = task
              /\ \A j \in 0 .. (i - 1) : table[j].task # task
         ELSE -1

findEmptySlot(table) ==
    IF \E i \in Slots : table[i].task = NULL
    THEN CHOOSE i \in Slots :
         /\ table[i].task = NULL
         /\ \A j \in 0 .. (i - 1) : table[j].task # NULL
    ELSE -1

\* Seeded fault for C12: setupTaskStats without its duplicate test.
setupTaskStats_NoDuplicateTest(table, task) ==
    IF task = NULL THEN << FALSE, table >>
    ELSE IF findEmptySlot(table) < 0 THEN << FALSE, table >>
    ELSE << TRUE, [table EXCEPT ![findEmptySlot(table)] =
                      [task |-> task, run_ticks |-> 0, quantum_ticks |-> 0]] >>

\* Seeded fault for C14: with no empty slot setupTaskStats takes the last one.
setupTaskStats_OverwritesWhenFull(table, task) ==
    IF task = NULL THEN << FALSE, table >>
    ELSE IF findTaskIndex(table, task) >= 0 THEN << FALSE, table >>
    ELSE << TRUE, [table EXCEPT ![IF findEmptySlot(table) < 0 THEN MaxTasks - 1
                                  ELSE findEmptySlot(table)] =
                      [task |-> task, run_ticks |-> 0, quantum_ticks |-> 0]] >>

\* Seeded fault for C24: with no empty slot setupTaskStats reports success.
setupTaskStats_FullReportsTrue(table, task) ==
    IF task = NULL THEN << FALSE, table >>
    ELSE IF findTaskIndex(table, task) >= 0 THEN << FALSE, table >>
    ELSE IF findEmptySlot(table) < 0 THEN << TRUE, table >>
    ELSE << TRUE, [table EXCEPT ![findEmptySlot(table)] =
                      [task |-> task, run_ticks |-> 0, quantum_ticks |-> 0]] >>

\* setupTaskStats: << returned value, table afterwards >>.
setupTaskStats(table, task) ==
    IF task = NULL THEN << FALSE, table >>
    ELSE IF findTaskIndex(table, task) >= 0 THEN << FALSE, table >>
    ELSE IF findEmptySlot(table) < 0 THEN << FALSE, table >>
    ELSE << TRUE, [table EXCEPT ![findEmptySlot(table)] =
                      [task |-> task, run_ticks |-> 0, quantum_ticks |-> 0]] >>

\* Seeded fault for C16: setTaskQuantum without the test for a quantum of 0.
setTaskQuantum_AcceptsZero(table, task, quantumTicks) ==
    IF task = NULL THEN << FALSE, table >>
    ELSE IF findTaskIndex(table, task) < 0 THEN << FALSE, table >>
    ELSE << TRUE, [table EXCEPT ![findTaskIndex(table, task)].quantum_ticks = quantumTicks] >>

\* Seeded fault for C4: setTaskQuantum reports success without storing.
setTaskQuantum_NoStore(table, task, quantumTicks) ==
    IF task = NULL \/ quantumTicks = 0 THEN << FALSE, table >>
    ELSE IF findTaskIndex(table, task) < 0 THEN << FALSE, table >>
    ELSE << TRUE, table >>

\* setTaskQuantum: << returned value, table afterwards >>.
setTaskQuantum(table, task, quantumTicks) ==
    IF task = NULL \/ quantumTicks = 0 THEN << FALSE, table >>
    ELSE LET index == findTaskIndex(table, task)
         IN  IF index < 0 THEN << FALSE, table >>
             ELSE << TRUE, [table EXCEPT ![index].quantum_ticks = quantumTicks] >>

getTaskRuntime(table, task) ==
    IF task = NULL THEN 0
    ELSE IF findTaskIndex(table, task) >= 0
         THEN table[findTaskIndex(table, task)].run_ticks
         ELSE 0

\* Seeded fault for C7: resetTaskRuntime reports success without clearing.
resetTaskRuntime_NoClear(table, task) ==
    IF task = NULL THEN << FALSE, table >>
    ELSE IF findTaskIndex(table, task) < 0 THEN << FALSE, table >>
    ELSE << TRUE, table >>

\* resetTaskRuntime: << returned value, table afterwards >>.
resetTaskRuntime(table, task) ==
    IF task = NULL THEN << FALSE, table >>
    ELSE LET index == findTaskIndex(table, task)
         IN  IF index < 0 THEN << FALSE, table >>
             ELSE << TRUE, [table EXCEPT ![index].run_ticks = 0] >>

\* vApplicationTickHook, the table part: the slot of the running task, or -1.
tickHookSlot(table, current) ==
    IF current = NULL THEN -1
    ELSE IF \E i \in Slots : table[i].task = current
         THEN CHOOSE i \in Slots :
              /\ table[i].task = current
              /\ \A j \in 0 .. (i - 1) : table[j].task # current
         ELSE -1

\* Seeded fault for C26: the loop has no test for the running task and no
\* break, so every occupied record is charged.
tickHookTable_ChargesAll(table, current) ==
    IF tickHookSlot(table, current) < 0 THEN table
    ELSE [i \in Slots |->
             IF table[i].task = NULL THEN table[i]
             ELSE [table[i] EXCEPT !.run_ticks = (@ + 1) % UInt32]]

\* vApplicationTickHook: run_ticks++ on the running task's record.
tickHookTable(table, current) ==
    IF tickHookSlot(table, current) < 0 THEN table
    ELSE [table EXCEPT ![tickHookSlot(table, current)].run_ticks = (@ + 1) % UInt32]

\* Seeded fault for C30: the expiry test succeeds only on the tick on which
\* run_ticks reaches the quantum.
tickHookExpired_OnlyAtQuantum(table, current) ==
    /\ tickHookSlot(table, current) >= 0
    /\ LET rec == tickHookTable(table, current)[tickHookSlot(table, current)]
       IN  rec.quantum_ticks # 0 /\ rec.run_ticks = rec.quantum_ticks

\* Seeded fault for C25: the expiry test asks for run_ticks above the quantum.
tickHookExpired_StrictlyOver(table, current) ==
    /\ tickHookSlot(table, current) >= 0
    /\ LET rec == tickHookTable(table, current)[tickHookSlot(table, current)]
       IN  rec.quantum_ticks # 0 /\ rec.run_ticks > rec.quantum_ticks

\* vApplicationTickHook: the expiry test, made after the increment.
tickHookExpired(table, current) ==
    /\ tickHookSlot(table, current) >= 0
    /\ LET rec == tickHookTable(table, current)[tickHookSlot(table, current)]
       IN  rec.quantum_ticks # 0 /\ rec.run_ticks >= rec.quantum_ticks

\* Seeded fault: a full queue makes room by discarding its oldest item.
xQueueSendFromISR_DropsOldest(queue, item) ==
    IF Len(queue) >= TICK_PROFILER_EXPIRED_QUEUE_LENGTH THEN Append(Tail(queue), item)
    ELSE Append(queue, item)

\* xQueueSendFromISR: a full queue rejects the new item.
xQueueSendFromISR(queue, item) ==
    IF Len(queue) >= TICK_PROFILER_EXPIRED_QUEUE_LENGTH THEN queue
    ELSE Append(queue, item)

tickHookQueue(table, queue, current) ==
    IF tickHookExpired(table, current) THEN xQueueSendFromISR(queue, current) ELSE queue

(***************************************************************************)
(* The kernel: fixed-priority pre-emptive scheduling on one core.          *)
(***************************************************************************)
\* vTaskPrioritySet stores the priority, limited to configMAX_PRIORITIES - 1.
\* A NULL handle names the calling task.
vTaskPrioritySet(prio, caller, task, uxNewPriority) ==
    LET target == IF task = NULL THEN caller ELSE task
        p == IF uxNewPriority >= configMAX_PRIORITIES
             THEN configMAX_PRIORITIES - 1 ELSE uxNewPriority
    IN  IF target \in DOMAIN prio THEN [prio EXCEPT ![target] = p] ELSE prio

\* The tasks that are ready to run.
ReadyTasks(slp, supReady) ==
    {h \in Tasks : slp[h] = 0} \cup (IF supReady THEN {SchedHandle} ELSE {})

TopReady(ready, prio) == {h \in ready : \A g \in ready : prio[g] <= prio[h]}

\* Tasks of equal priority share the processor round robin; the model fixes the
\* order of the ready list as A, B, C, scheduler task.
Rank(h) == CASE h = "A" -> 0 [] h = "B" -> 1 [] h = "C" -> 2 [] OTHER -> 3

\* The member of `top` that follows `cur` in the round-robin order.
NextInTurn(cur, top) ==
    CHOOSE h \in top : \A g \in top :
        ((Rank(h) - Rank(cur) - 1) % 4) <= ((Rank(g) - Rank(cur) - 1) % 4)

\* The task chosen at a tick: the next ready task of the highest priority
\* (time slicing).
SelectAtTick(cur, ready, prio) ==
    IF ready = {} THEN IdleHandle ELSE NextInTurn(cur, TopReady(ready, prio))

\* The task chosen elsewhere: the running task keeps the processor unless a
\* task of higher priority is ready or it has blocked.
SelectTask(cur, ready, prio) ==
    IF ready = {} THEN IdleHandle
    ELSE IF cur \in TopReady(ready, prio) THEN cur
    ELSE NextInTurn(cur, TopReady(ready, prio))

\* The task chosen when vTaskPrioritySet returns: raising another ready task to
\* the caller's priority or above makes the caller yield.
SelectAfterPrioritySet(cur, task, ready, prio) ==
    IF task # cur /\ task \in ready /\ prio[task] >= prio[cur]
    THEN SelectAtTick(cur, ready, prio)
    ELSE SelectTask(cur, ready, prio)

SupReady(p) == p \notin {"main", "blocked"}

(***************************************************************************)
(* Initial state: after initScheduler() and the xTaskCreate calls of main. *)
(***************************************************************************)
\* The record of an API call: the function, its arguments, and whether it
\* accepted the call (registerTask returns nothing: ret says that it
\* registered the task).
NoCall == [op |-> "none", task |-> NULL, arg |-> 0, ret |-> FALSE]

Init ==
    /\ g_taskTable = [i \in Slots |->
           [task_handle |-> NULL, task_level |-> MLFQ_QUEUE_HIGH, arrival_tick |-> 0]]
    /\ g_profilerTable = [i \in Slots |->
           [task |-> NULL, run_ticks |-> 0, quantum_ticks |-> 0]]
    /\ g_expiredQueue = << >>
    /\ enqueuedAt = << >>
    /\ g_schedulerTaskHandle = NULL
    /\ xTickCount = 0
    /\ uxPriority = [h \in Tasks \cup {SchedHandle} |->
           IF h = SchedHandle THEN MLFQ_TOP_PRIORITY_NUMBER + 1 ELSE WorkloadCreatePriority]
    /\ pxCurrentTCB = MainContext
    /\ pc = "main"
    /\ xLastBoostTime = 0
    /\ xNow = 0
    /\ table_index = 0
    /\ utpTask = NULL
    /\ utpLevel = 0
    /\ utpRet = "none"
    /\ xDelay = 0
    /\ burst = [h \in Tasks |-> 0]
    /\ sleep = [h \in Tasks |-> 0]
    /\ nCalls = 0
    /\ supTicks = 0
    /\ boosted = FALSE
    /\ expiries = [h \in Tasks |-> 0]
    /\ demoted = {}
    /\ lastCall = NoCall
    /\ configMAX_PRIORITIES \in MaxPrioritiesChoices


(***************************************************************************)
(* main(): registration before the kernel starts.                          *)
(***************************************************************************)
\* Seeded fault for C15: registerTask enters the task at MEDIUM.
registerTaskTable_StartsMedium(table, profiler, taskHandle, now) ==
    IF schedulerSlotOf(table, NULL) < 0 \/ ~setupTaskStats(profiler, taskHandle)[1]
    THEN table
    ELSE [table EXCEPT ![schedulerSlotOf(table, NULL)] =
             [task_handle |-> taskHandle, task_level |-> MLFQ_QUEUE_MEDIUM,
              arrival_tick |-> now]]

\* Seeded fault for C13: registerTask claims the slot without looking at what
\* setupTaskStats returned.
registerTaskTable_Unchecked(table, profiler, taskHandle, now) ==
    IF schedulerSlotOf(table, NULL) < 0
    THEN table
    ELSE [table EXCEPT ![schedulerSlotOf(table, NULL)] =
             [task_handle |-> taskHandle, task_level |-> MLFQ_QUEUE_HIGH,
              arrival_tick |-> now]]

\* registerTask: the supervisor table afterwards.
registerTaskTable(table, profiler, taskHandle, now) ==
    IF schedulerSlotOf(table, NULL) < 0 \/ ~setupTaskStats(profiler, taskHandle)[1]
    THEN table
    ELSE [table EXCEPT ![schedulerSlotOf(table, NULL)] =
             [task_handle |-> taskHandle, task_level |-> MLFQ_QUEUE_HIGH,
              arrival_tick |-> now]]

\* registerTask: the accountant table afterwards.
registerTaskProfiler(table, profiler, taskHandle) ==
    IF schedulerSlotOf(table, NULL) < 0 \/ ~setupTaskStats(profiler, taskHandle)[1]
    THEN profiler
    ELSE setTaskQuantum(setupTaskStats(profiler, taskHandle)[2], taskHandle,
                        MLFQ_TIME_SLICE_HIGH)[2]

\* registerTask: the kernel priorities afterwards.
registerTaskPriority(table, profiler, prio, caller, taskHandle) ==
    IF schedulerSlotOf(table, NULL) < 0 \/ ~setupTaskStats(profiler, taskHandle)[1]
    THEN prio
    ELSE vTaskPrioritySet(prio, caller, taskHandle,
                          MLFQ_TO_RTOS_LEVEL_SETTER(MLFQ_QUEUE_HIGH))

registerTask(taskHandle) ==
    /\ pc = "main"
    /\ nCalls < MaxRegisterCalls
    /\ nCalls' = nCalls + 1
    /\ g_taskTable' = registerTaskTable(g_taskTable, g_profilerTable, taskHandle, xTickCount)
    /\ g_profilerTable' = registerTaskProfiler(g_taskTable, g_profilerTable, taskHandle)
    /\ uxPriority' = registerTaskPriority(g_taskTable, g_profilerTable, uxPriority,
                                          pxCurrentTCB, taskHandle)
    /\ lastCall' = [op |-> "registerTask", task |-> taskHandle, arg |-> 0,
                    ret |-> (schedulerSlotOf(g_taskTable, NULL) >= 0
                             /\ setupTaskStats(g_profilerTable, taskHandle)[1])]
    /\ UNCHANGED << g_expiredQueue, g_schedulerTaskHandle, xTickCount, pxCurrentTCB, pc,
                    xLastBoostTime, xNow, table_index, utpTask, utpLevel, utpRet,
                    xDelay, burst, sleep, supTicks, boosted, expiries,
                    demoted, configMAX_PRIORITIES, enqueuedAt >>

\* vTaskStartScheduler: the highest-priority ready task runs.
vTaskStartScheduler ==
    /\ pc = "main"
    /\ pc' = "start"
    /\ nCalls' = 0
    /\ lastCall' = NoCall
    /\ pxCurrentTCB' = SelectAtTick(pxCurrentTCB, ReadyTasks(sleep, TRUE), uxPriority)
    /\ UNCHANGED << g_taskTable, g_profilerTable, g_expiredQueue, g_schedulerTaskHandle,
                    xTickCount, uxPriority, xLastBoostTime, xNow, table_index,
                    utpTask, utpLevel, utpRet, xDelay, burst, sleep, supTicks,
                    boosted, expiries,
                    demoted, configMAX_PRIORITIES, enqueuedAt >>

(***************************************************************************)
(* The tick interrupt: xTaskIncrementTick, then vApplicationTickHook on    *)
(* the interrupted task, then the context switch.                          *)
(***************************************************************************)
\* The workload task that was running ends its burst with this tick and blocks.
burstEnds(cur) == cur \in Interactive /\ burst[cur] + 1 >= InteractiveRunTicks

TickWithin(maxTick, maxSupTicks) ==
    /\ pc # "main"
    /\ xTickCount < maxTick
    /\ (pxCurrentTCB = SchedHandle) => (supTicks < maxSupTicks)
    /\ xTickCount' = (xTickCount + 1) % UInt32
    /\ supTicks' = IF pxCurrentTCB = SchedHandle THEN supTicks + 1 ELSE supTicks
    /\ xDelay' = IF xDelay > 0 THEN xDelay - 1 ELSE 0
    /\ pc' = IF pc = "blocked" /\ xDelay = 1 THEN "recv" ELSE pc
    /\ g_profilerTable' = tickHookTable(g_profilerTable, pxCurrentTCB)
    /\ g_expiredQueue' = tickHookQueue(g_profilerTable, g_expiredQueue, pxCurrentTCB)
    /\ enqueuedAt' = IF Len(g_expiredQueue') > Len(g_expiredQueue)
                     THEN Append(enqueuedAt, xTickCount') ELSE enqueuedAt
    /\ burst' = [h \in Tasks |->
                   IF h # pxCurrentTCB THEN burst[h]
                   ELSE IF burstEnds(h) THEN 0 ELSE
                        IF h \in Interactive THEN burst[h] + 1 ELSE 0]
    /\ sleep' = [h \in Tasks |->
                   IF h = pxCurrentTCB /\ burstEnds(h) THEN InteractiveBlockTicks
                   ELSE IF sleep[h] > 0 THEN sleep[h] - 1 ELSE 0]
    /\ pxCurrentTCB' = SelectAtTick(pxCurrentTCB, ReadyTasks(sleep', SupReady(pc')),
                                     uxPriority)
    /\ UNCHANGED << g_taskTable, g_schedulerTaskHandle, uxPriority, xLastBoostTime,
                    xNow, table_index, utpTask, utpLevel, utpRet, nCalls, boosted,
                    expiries,
                    demoted, lastCall, configMAX_PRIORITIES >>

Tick == TickWithin(MaxTick, MaxSupTicks)

(***************************************************************************)
(* schedulerTask(): every step needs the scheduler task to be running.     *)
(***************************************************************************)
schedulerTask_start ==
    /\ pc = "start"
    /\ pxCurrentTCB = SchedHandle
    /\ g_schedulerTaskHandle' = SchedHandle
    /\ xLastBoostTime' = xTickCount
    /\ pc' = "recv"
    /\ UNCHANGED << g_taskTable, g_profilerTable, g_expiredQueue, xTickCount,
                    uxPriority, pxCurrentTCB, xNow, table_index, utpTask, utpLevel,
                    utpRet, xDelay, burst, sleep, nCalls, supTicks, boosted, expiries,
                    demoted, lastCall, configMAX_PRIORITIES, enqueuedAt >>

\* Seeded fault for C19: a received handle that is not in the supervisor
\* table has its run_ticks cleared.
schedulerTask_receive_ClearsStale ==
    /\ pc = "recv"
    /\ pxCurrentTCB = SchedHandle
    /\ g_expiredQueue # << >>
    /\ g_expiredQueue' = Tail(g_expiredQueue)
    /\ enqueuedAt' = IF schedulerSlotOf(g_taskTable, Head(g_expiredQueue)) < 0
                     THEN Tail(enqueuedAt) ELSE enqueuedAt
    /\ LET i == schedulerSlotOf(g_taskTable, Head(g_expiredQueue))
       IN  IF i < 0
           THEN /\ g_profilerTable' = resetTaskRuntime(g_profilerTable,
                                                       Head(g_expiredQueue))[2]
                /\ UNCHANGED << pc, utpTask, utpLevel, utpRet >>
           ELSE /\ utpTask' = g_taskTable[i].task_handle
                /\ utpLevel' = checkForDemotionLevel(g_taskTable[i].task_level)
                /\ utpRet' = "recv"
                /\ pc' = "utp_set"
                /\ UNCHANGED g_profilerTable
    /\ UNCHANGED << g_taskTable, g_schedulerTaskHandle, xTickCount,
                    uxPriority, pxCurrentTCB, xLastBoostTime, xNow, table_index,
                    xDelay, burst, sleep, nCalls, supTicks, boosted, expiries,
                    demoted, lastCall, configMAX_PRIORITIES >>

\* while (xQueueReceive(...) == pdTRUE): one received handle, looked up in the
\* table and handed to checkForDemotion, which calls updateTaskPriority.
schedulerTask_receive ==
    /\ pc = "recv"
    /\ pxCurrentTCB = SchedHandle
    /\ g_expiredQueue # << >>
    /\ g_expiredQueue' = Tail(g_expiredQueue)
    /\ enqueuedAt' = IF schedulerSlotOf(g_taskTable, Head(g_expiredQueue)) < 0
                     THEN Tail(enqueuedAt) ELSE enqueuedAt
    /\ LET i == schedulerSlotOf(g_taskTable, Head(g_expiredQueue))
       IN  IF i < 0
           THEN UNCHANGED << pc, utpTask, utpLevel, utpRet >>
           ELSE /\ utpTask' = g_taskTable[i].task_handle
                /\ utpLevel' = checkForDemotionLevel(g_taskTable[i].task_level)
                /\ utpRet' = "recv"
                /\ pc' = "utp_set"
    /\ UNCHANGED << g_taskTable, g_profilerTable, g_schedulerTaskHandle, xTickCount,
                    uxPriority, pxCurrentTCB, xLastBoostTime, xNow, table_index,
                    xDelay, burst, sleep, nCalls, supTicks, boosted, expiries,
                    demoted, lastCall, configMAX_PRIORITIES >>

\* updateTaskPriority, first part: the table write and vTaskPrioritySet, which
\* yields at once when it makes another task outrank the caller.
updateTaskPriority_set ==
    /\ pc = "utp_set"
    /\ pxCurrentTCB = SchedHandle
    /\ LET i == schedulerSlotOf(g_taskTable, utpTask)
       IN  IF i < 0
           THEN /\ pc' = utpRet
                /\ utpTask' = NULL /\ utpLevel' = 0 /\ utpRet' = "none"
                /\ UNCHANGED << g_taskTable, uxPriority, pxCurrentTCB, expiries, demoted >>
           ELSE /\ g_taskTable' = [g_taskTable EXCEPT ![i].task_level = utpLevel]
                /\ uxPriority' = vTaskPrioritySet(uxPriority, SchedHandle, utpTask,
                                                  MLFQ_TO_RTOS_LEVEL_SETTER(utpLevel))
                /\ pxCurrentTCB' = SelectAfterPrioritySet(SchedHandle, utpTask,
                                         ReadyTasks(sleep, TRUE), uxPriority')
                /\ expiries' = IF utpTask \in Tasks
                               THEN [expiries EXCEPT ![utpTask] =
                                        IF utpRet = "recv" THEN @ + 1 ELSE 0]
                               ELSE expiries
                /\ demoted' = IF utpRet = "recv" THEN demoted \cup {utpTask} ELSE demoted
                /\ pc' = "utp_quantum"
                /\ UNCHANGED << utpTask, utpLevel, utpRet >>
    /\ UNCHANGED << g_profilerTable, g_expiredQueue, g_schedulerTaskHandle, xTickCount,
                    xLastBoostTime, xNow, table_index, xDelay, burst, sleep, nCalls,
                    supTicks, boosted,
                    lastCall, configMAX_PRIORITIES, enqueuedAt >>

updateTaskPriority_quantum ==
    /\ pc = "utp_quantum"
    /\ pxCurrentTCB = SchedHandle
    /\ g_profilerTable' = setTaskQuantum(g_profilerTable, utpTask,
                                         getQuantumForLevel(utpLevel))[2]
    /\ pc' = "utp_reset"
    /\ UNCHANGED << g_taskTable, g_expiredQueue, g_schedulerTaskHandle, xTickCount,
                    uxPriority, pxCurrentTCB, xLastBoostTime, xNow, table_index,
                    utpTask, utpLevel, utpRet, xDelay, burst, sleep, nCalls, supTicks,
                    boosted, expiries,
                    demoted, lastCall, configMAX_PRIORITIES, enqueuedAt >>

updateTaskPriority_reset ==
    /\ pc = "utp_reset"
    /\ pxCurrentTCB = SchedHandle
    /\ g_profilerTable' = resetTaskRuntime(g_profilerTable, utpTask)[2]
    /\ pc' = utpRet
    /\ enqueuedAt' = IF utpRet = "recv" THEN Tail(enqueuedAt) ELSE enqueuedAt
    /\ utpTask' = NULL /\ utpLevel' = 0 /\ utpRet' = "none"
    /\ UNCHANGED << g_taskTable, g_expiredQueue, g_schedulerTaskHandle, xTickCount,
                    uxPriority, pxCurrentTCB, xLastBoostTime, xNow, table_index,
                    xDelay, burst, sleep, nCalls, supTicks, boosted, expiries,
                    demoted, lastCall, configMAX_PRIORITIES >>

\* Seeded fault for C8: the boost test compares the elapsed ticks with the
\* period scaled once more by the tick rate, so that it never succeeds.
schedulerTask_boostCheck_Scaled ==
    /\ pc = "recv"
    /\ pxCurrentTCB = SchedHandle
    /\ g_expiredQueue = << >>
    /\ xNow' = xTickCount
    /\ pc' = IF (xTickCount - xLastBoostTime) % UInt32 >= xBoostPeriod * configTICK_RATE_HZ
             THEN "boost" ELSE "delay"
    /\ table_index' = 0
    /\ UNCHANGED << g_taskTable, g_profilerTable, g_expiredQueue, g_schedulerTaskHandle,
                    xTickCount, uxPriority, pxCurrentTCB, xLastBoostTime, utpTask,
                    utpLevel, utpRet, xDelay, burst, sleep, nCalls, supTicks, boosted,
                    expiries,
                    demoted, lastCall, configMAX_PRIORITIES, enqueuedAt >>

\* Seeded fault for C11: the boost test is made before the expiry queue is
\* drained.
schedulerTask_boostCheck_BeforeDrain ==
    /\ pc = "recv"
    /\ pxCurrentTCB = SchedHandle
    /\ xNow' = xTickCount
    /\ pc' = IF (xTickCount - xLastBoostTime) % UInt32 >= xBoostPeriod
             THEN "boost" ELSE "delay"
    /\ table_index' = 0
    /\ UNCHANGED << g_taskTable, g_profilerTable, g_expiredQueue, g_schedulerTaskHandle,
                    xTickCount, uxPriority, pxCurrentTCB, xLastBoostTime, utpTask,
                    utpLevel, utpRet, xDelay, burst, sleep, nCalls, supTicks, boosted,
                    expiries,
                    demoted, lastCall, configMAX_PRIORITIES, enqueuedAt >>

\* Seeded fault for C28: the boost test compares the elapsed ticks with the
\* polling delay instead of the boost period.
schedulerTask_boostCheck_EveryPoll ==
    /\ pc = "recv"
    /\ pxCurrentTCB = SchedHandle
    /\ g_expiredQueue = << >>
    /\ xNow' = xTickCount
    /\ pc' = IF (xTickCount - xLastBoostTime) % UInt32 >= pdMS_TO_TICKS(SchedulerDelayMs)
             THEN "boost" ELSE "delay"
    /\ table_index' = 0
    /\ UNCHANGED << g_taskTable, g_profilerTable, g_expiredQueue, g_schedulerTaskHandle,
                    xTickCount, uxPriority, pxCurrentTCB, xLastBoostTime, utpTask,
                    utpLevel, utpRet, xDelay, burst, sleep, nCalls, supTicks, boosted,
                    expiries,
                    demoted, lastCall, configMAX_PRIORITIES, enqueuedAt >>

\* Seeded fault for C35: the elapsed ticks are computed without wrapping, in a
\* type wider than the tick counter.
schedulerTask_boostCheckEvery_NoWrap(boostPeriod) ==
    /\ pc = "recv"
    /\ pxCurrentTCB = SchedHandle
    /\ g_expiredQueue = << >>
    /\ xNow' = xTickCount
    /\ pc' = IF xTickCount - xLastBoostTime >= boostPeriod
             THEN "boost" ELSE "delay"
    /\ table_index' = 0
    /\ UNCHANGED << g_taskTable, g_profilerTable, g_expiredQueue, g_schedulerTaskHandle,
                    xTickCount, uxPriority, pxCurrentTCB, xLastBoostTime, utpTask,
                    utpLevel, utpRet, xDelay, burst, sleep, nCalls, supTicks, boosted,
                    expiries,
                    demoted, lastCall, configMAX_PRIORITIES, enqueuedAt >>

\* The queue is empty: xNow = xTaskGetTickCount() and the boost test.
schedulerTask_boostCheckEvery(boostPeriod) ==
    /\ pc = "recv"
    /\ pxCurrentTCB = SchedHandle
    /\ g_expiredQueue = << >>
    /\ xNow' = xTickCount
    /\ pc' = IF (xTickCount - xLastBoostTime) % UInt32 >= boostPeriod
             THEN "boost" ELSE "delay"
    /\ table_index' = 0
    /\ UNCHANGED << g_taskTable, g_profilerTable, g_expiredQueue, g_schedulerTaskHandle,
                    xTickCount, uxPriority, pxCurrentTCB, xLastBoostTime, utpTask,
                    utpLevel, utpRet, xDelay, burst, sleep, nCalls, supTicks, boosted,
                    expiries,
                    demoted, lastCall, configMAX_PRIORITIES, enqueuedAt >>

schedulerTask_boostCheck == schedulerTask_boostCheckEvery(xBoostPeriod)

\* performGlobalBoost: one turn of its loop.
performGlobalBoost ==
    /\ pc = "boost"
    /\ pxCurrentTCB = SchedHandle
    /\ IF table_index >= MaxTasks
       THEN /\ pc' = "report"
            /\ boosted' = TRUE
            /\ table_index' = 0
            /\ UNCHANGED << utpTask, utpLevel, utpRet >>
       ELSE /\ table_index' = table_index + 1
            /\ UNCHANGED boosted
            /\ IF g_taskTable[table_index].task_handle # NULL
               THEN /\ utpTask' = g_taskTable[table_index].task_handle
                    /\ utpLevel' = MLFQ_QUEUE_HIGH
                    /\ utpRet' = "boost"
                    /\ pc' = "utp_set"
               ELSE UNCHANGED << pc, utpTask, utpLevel, utpRet >>
    /\ UNCHANGED << g_taskTable, g_profilerTable, g_expiredQueue, g_schedulerTaskHandle,
                    xTickCount, uxPriority, pxCurrentTCB, xLastBoostTime, xNow,
                    xDelay, burst, sleep, nCalls, supTicks, expiries,
                    demoted, lastCall, configMAX_PRIORITIES, enqueuedAt >>

\* printQueueReport() (reads only) and xLastBoostTime = xNow.
schedulerTask_report ==
    /\ pc = "report"
    /\ pxCurrentTCB = SchedHandle
    /\ xLastBoostTime' = xNow
    /\ pc' = "delay"
    /\ UNCHANGED << g_taskTable, g_profilerTable, g_expiredQueue, g_schedulerTaskHandle,
                    xTickCount, uxPriority, pxCurrentTCB, xNow, table_index, utpTask,
                    utpLevel, utpRet, xDelay, burst, sleep, nCalls, supTicks, boosted,
                    expiries,
                    demoted, lastCall, configMAX_PRIORITIES, enqueuedAt >>

\* vTaskDelay(pdMS_TO_TICKS(10)): the scheduler task blocks.
schedulerTask_delay ==
    /\ pc = "delay"
    /\ pxCurrentTCB = SchedHandle
    /\ pc' = "blocked"
    /\ xDelay' = pdMS_TO_TICKS(SchedulerDelayMs)
    /\ xNow' = 0
    /\ boosted' = FALSE
    /\ demoted' = {}
    /\ pxCurrentTCB' = SelectTask(SchedHandle, ReadyTasks(sleep, FALSE), uxPriority)
    /\ UNCHANGED << g_taskTable, g_profilerTable, g_expiredQueue, g_schedulerTaskHandle,
                    xTickCount, uxPriority, xLastBoostTime, table_index, utpTask,
                    utpLevel, utpRet, burst, sleep, nCalls, supTicks, expiries,
                    lastCall, configMAX_PRIORITIES, enqueuedAt >>

(***************************************************************************)
(* promoteInteractiveTask(): an API call made by the interactive workload   *)
(* task while it runs and the scheduler task is not inside                 *)
(* updateTaskPriority.  The call is                                        *)
(* one step.  `st` holds the two tables and the priorities:                *)
(* [t |-> supervisor table, p |-> accountant table, u |-> priorities].     *)
(***************************************************************************)
\* Seeded fault for C18: updateTaskPriority adds the quantum of the level to
\* the quantum the task has.
updateTaskPriority_AddsQuantum(st, caller, task, newLevel) ==
    IF schedulerSlotOf(st.t, task) < 0 THEN st
    ELSE [t |-> [st.t EXCEPT ![schedulerSlotOf(st.t, task)].task_level = newLevel],
          u |-> vTaskPrioritySet(st.u, caller, task, MLFQ_TO_RTOS_LEVEL_SETTER(newLevel)),
          p |-> resetTaskRuntime(
                    setTaskQuantum(st.p, task,
                                   st.p[findTaskIndex(st.p, task)].quantum_ticks
                                   + getQuantumForLevel(newLevel))[2],
                    task)[2]]

\* updateTaskPriority as one call.
updateTaskPriority(st, caller, task, newLevel) ==
    LET slot == schedulerSlotOf(st.t, task) IN
    IF slot < 0 THEN st
    ELSE [t |-> [st.t EXCEPT ![slot].task_level = newLevel],
          u |-> vTaskPrioritySet(st.u, caller, task, MLFQ_TO_RTOS_LEVEL_SETTER(newLevel)),
          p |-> resetTaskRuntime(
                    setTaskQuantum(st.p, task, getQuantumForLevel(newLevel))[2],
                    task)[2]]

\* Seeded fault for C23: a promoted task goes straight to HIGH.
RECURSIVE promoteFrom_ToHigh(_, _, _, _)
promoteFrom_ToHigh(i, st, caller, task) ==
    IF i >= MaxTasks THEN st
    ELSE IF st.t[i].task_handle = task /\ st.t[i].task_level # MLFQ_QUEUE_HIGH
         THEN promoteFrom_ToHigh(i + 1,
                          updateTaskPriority(st, caller, st.t[i].task_handle,
                                             MLFQ_QUEUE_HIGH),
                          caller, task)
         ELSE promoteFrom_ToHigh(i + 1, st, caller, task)

\* promoteInteractiveTask: the loop from table_index i on.
RECURSIVE promoteFrom(_, _, _, _)
promoteFrom(i, st, caller, task) ==
    IF i >= MaxTasks THEN st
    ELSE IF st.t[i].task_handle = task /\ st.t[i].task_level # MLFQ_QUEUE_HIGH
         THEN promoteFrom(i + 1,
                          updateTaskPriority(st, caller, st.t[i].task_handle,
                                             st.t[i].task_level - 1),
                          caller, task)
         ELSE promoteFrom(i + 1, st, caller, task)

\* promoteInteractiveTask called while fewer than maxCalls calls have been made.
promoteInteractiveTaskCall(task, maxCalls) ==
    /\ pc \notin {"main", "utp_set", "utp_quantum", "utp_reset"}
    /\ pxCurrentTCB \in Interactive
    /\ nCalls < maxCalls
    /\ nCalls' = nCalls + 1
    /\ LET st == promoteFrom(0, [t |-> g_taskTable, p |-> g_profilerTable,
                                 u |-> uxPriority], pxCurrentTCB, task)
       IN  /\ g_taskTable' = st.t
           /\ g_profilerTable' = st.p
           /\ uxPriority' = st.u
           /\ pxCurrentTCB' = SelectAfterPrioritySet(pxCurrentTCB, task,
                                  ReadyTasks(sleep, SupReady(pc)), st.u)
    /\ UNCHANGED << g_expiredQueue, g_schedulerTaskHandle, xTickCount, pc,
                    xLastBoostTime, xNow, table_index, utpTask, utpLevel, utpRet,
                    xDelay, burst, sleep, supTicks, boosted, expiries,
                    demoted, lastCall, configMAX_PRIORITIES, enqueuedAt >>

promoteInteractiveTask(task) == promoteInteractiveTaskCall(task, MaxPromoteCalls)

Next ==
    \/ \E h \in Tasks \cup {NULL} : registerTask(h)
    \/ vTaskStartScheduler
    \/ Tick
    \/ schedulerTask_start
    \/ schedulerTask_receive
    \/ updateTaskPriority_set
    \/ updateTaskPriority_quantum
    \/ updateTaskPriority_reset
    \/ schedulerTask_boostCheck
    \/ performGlobalBoost
    \/ schedulerTask_report
    \/ schedulerTask_delay
    \/ \E h \in Tasks \cup {NULL} : promoteInteractiveTask(h)

Spec == Init /\ [][Next]_vars

(***************************************************************************)
(* The accountant's functions called by a client directly, from main()     *)
(* before the kernel starts.  The application of main.c and test.c reaches *)
(* them through registerTask only (Spec); LibSpec adds the direct calls.   *)
(***************************************************************************)
\* Quanta a client passes to setTaskQuantum: the rejected 0 and the quantum
\* of the level every task has before the kernel starts.
QuantumChoices == {0, MLFQ_TIME_SLICE_HIGH}

setupTaskStats_call(task) ==
    /\ pc = "main"
    /\ nCalls < MaxRegisterCalls
    /\ nCalls' = nCalls + 1
    /\ g_profilerTable' = setupTaskStats(g_profilerTable, task)[2]
    /\ lastCall' = [op |-> "setupTaskStats", task |-> task, arg |-> 0,
                    ret |-> setupTaskStats(g_profilerTable, task)[1]]
    /\ UNCHANGED << g_taskTable, g_expiredQueue, g_schedulerTaskHandle, xTickCount,
                    uxPriority, pxCurrentTCB, pc, xLastBoostTime, xNow, table_index,
                    utpTask, utpLevel, utpRet, xDelay, burst, sleep, supTicks, boosted,
                    expiries, demoted, configMAX_PRIORITIES, enqueuedAt >>

setTaskQuantum_call(task, quantumTicks) ==
    /\ pc = "main"
    /\ nCalls < MaxRegisterCalls
    /\ nCalls' = nCalls + 1
    /\ g_profilerTable' = setTaskQuantum(g_profilerTable, task, quantumTicks)[2]
    /\ lastCall' = [op |-> "setTaskQuantum", task |-> task, arg |-> quantumTicks,
                    ret |-> setTaskQuantum(g_profilerTable, task, quantumTicks)[1]]
    /\ UNCHANGED << g_taskTable, g_expiredQueue, g_schedulerTaskHandle, xTickCount,
                    uxPriority, pxCurrentTCB, pc, xLastBoostTime, xNow, table_index,
                    utpTask, utpLevel, utpRet, xDelay, burst, sleep, supTicks, boosted,
                    expiries, demoted, configMAX_PRIORITIES, enqueuedAt >>

\* LibSpec follows the program until the tick before the first boost is due;
\* promoteInteractiveTask is not called.
LibMaxTick == xBoostPeriod - 1

LibNext ==
    \/ \E h \in Tasks \cup {NULL} : registerTask(h)
    \/ \E h \in Tasks \cup {NULL} : setupTaskStats_call(h)
    \/ \E h \in Tasks \cup {NULL} : \E q \in QuantumChoices : setTaskQuantum_call(h, q)
    \/ vTaskStartScheduler
    \/ (xTickCount < LibMaxTick /\ Tick)
    \/ schedulerTask_start
    \/ schedulerTask_receive
    \/ updateTaskPriority_set
    \/ updateTaskPriority_quantum
    \/ updateTaskPriority_reset
    \/ schedulerTask_boostCheck
    \/ schedulerTask_delay

LibSpec == Init /\ [][LibNext]_vars

(***************************************************************************)
(* PromoteSpec: the application up to the tick before the first boost is   *)
(* due, with one more promoteInteractiveTask call than Spec allows, so     *)
(* that a task promoted from LOW to MEDIUM can be promoted again.          *)
(***************************************************************************)
PromoteSpecCalls == MaxPromoteCalls + 1

PromoteNext ==
    \/ \E h \in Tasks \cup {NULL} : registerTask(h)
    \/ vTaskStartScheduler
    \/ (xTickCount < LibMaxTick /\ Tick)
    \/ schedulerTask_start
    \/ schedulerTask_receive
    \/ updateTaskPriority_set
    \/ updateTaskPriority_quantum
    \/ updateTaskPriority_reset
    \/ schedulerTask_boostCheck
    \/ schedulerTask_delay
    \/ \E h \in Tasks \cup {NULL} : promoteInteractiveTaskCall(h, PromoteSpecCalls)

PromoteSpec == Init /\ [][PromoteNext]_vars

\* The steps of the scheduler task.
schedulerTask ==
    \/ schedulerTask_start
    \/ schedulerTask_receive
    \/ updateTaskPriority_set
    \/ updateTaskPriority_quantum
    \/ updateTaskPriority_reset
    \/ schedulerTask_boostCheck
    \/ performGlobalBoost
    \/ schedulerTask_report
    \/ schedulerTask_delay

\* The tick interrupt keeps firing, main() reaches vTaskStartScheduler, and the
\* scheduler task makes progress whenever the kernel has it running.
FairSpec ==
    /\ Spec
    /\ WF_vars(vTaskStartScheduler)
    /\ WF_vars(Tick)
    /\ WF_vars(schedulerTask)

(***************************************************************************)
(* schedulerGetTaskStats(): the snapshot of a supervisor slot.              *)
(***************************************************************************)
\* << returned value, *output >>; *output is left as it was when false is returned.
schedulerGetTaskStats(index, output) ==
    IF index >= MaxTasks \/ g_taskTable[index].task_handle = NULL
    THEN << FALSE, output >>
    ELSE << TRUE,
            [task          |-> g_taskTable[index].task_handle,
             task_level    |-> g_taskTable[index].task_level,
             arrival_tick  |-> g_taskTable[index].arrival_tick,
             run_ticks     |-> getTaskRuntime(g_profilerTable,
                                              g_taskTable[index].task_handle),
             quantum_ticks |-> getQuantumForLevel(g_taskTable[index].task_level)] >>

(***************************************************************************)
(* Helpers of the properties.                                              *)
(***************************************************************************)
Occupied(i) == g_taskTable[i].task_handle # NULL

\* The accountant record of the task in supervisor slot i.
RecordOf(i) == g_profilerTable[findTaskIndex(g_profilerTable, g_taskTable[i].task_handle)]

HasRecord(i) == findTaskIndex(g_profilerTable, g_taskTable[i].task_handle) >= 0

\* The scheduler task is inside updateTaskPriority for the task in slot i and
\* has written the level but not yet the quantum.
MidUpdate(i) == pc = "utp_quantum" /\ utpTask = g_taskTable[i].task_handle

\* The step applies a demotion (checkForDemotion -> updateTaskPriority).
DemotionStep == pc = "utp_set" /\ utpRet = "recv" /\ pc' = "utp_quantum"

\* The step is part of performGlobalBoost.
BoostStep == pc = "utp_set" /\ utpRet = "boost"

\* The step is a promoteInteractiveTask call.
PromoteStep == pc # "main" /\ nCalls' # nCalls

\* No promoteInteractiveTask call has been made.
NoPromotion == pc = "main" \/ nCalls = 0

\* No registered task has a kernel priority above the scheduler task's: the
\* kernel runs the scheduler task whenever its delay is over.
SupervisorScheduled ==
    \A i \in Slots :
       Occupied(i) => uxPriority[g_taskTable[i].task_handle] <= uxPriority[SchedHandle]

\* Ticks since the last boost, as the scheduler task computes them.
SinceLastBoost == (xTickCount - xLastBoostTime) % UInt32

\* The step is a registerTask(h) call.
RegisterStep(h) ==
    /\ pc = "main"
    /\ nCalls' = nCalls + 1
    /\ lastCall'.op = "registerTask"
    /\ lastCall'.task = h

\* The step is a direct setTaskQuantum(h, q) call.
SetQuantumStep(h, q) ==
    /\ pc = "main"
    /\ nCalls' = nCalls + 1
    /\ lastCall'.op = "setTaskQuantum"
    /\ lastCall'.task = h
    /\ lastCall'.arg = q

\* The level one below `level`, LOW staying LOW.
NextLowerLevel(level) == IF level < MLFQ_QUEUE_LOW THEN level + 1 ELSE MLFQ_QUEUE_LOW

(***************************************************************************)
(* C1: checkForDemotion on a slot moves the task exactly one level down:   *)
(* HIGH becomes MEDIUM, MEDIUM becomes LOW, and LOW stays LOW.  Stated on   *)
(* the step of the scheduler task that applies the demotion of an expired  *)
(* task: the level stored afterwards is the next lower level of the level  *)
(* stored before.                                                          *)
(***************************************************************************)
C1_DemotionOneLevelDown ==
    [][DemotionStep =>
         \A i \in Slots :
            (i = schedulerSlotOf(g_taskTable, utpTask))
               => g_taskTable'[i].task_level
                     = NextLowerLevel(g_taskTable[i].task_level)]_vars

(***************************************************************************)
(* C2: the level stored in every occupied slot of the supervisor table is  *)
(* one of HIGH, MEDIUM, LOW, in every reachable state.                     *)
(***************************************************************************)
C2_LevelInRange ==
    \A i \in Slots : Occupied(i) => g_taskTable[i].task_level \in Levels

(***************************************************************************)
(* C3: outside an updateTaskPriority call, a registered task at level L    *)
(* has the kernel priority of L: 5 at HIGH, 4 at MEDIUM, 3 at LOW.          *)
(***************************************************************************)
InUpdateTaskPriority == pc \in {"utp_set", "utp_quantum", "utp_reset"}

C3_PriorityMatchesLevel ==
    InUpdateTaskPriority
    \/ \A i \in Slots :
          Occupied(i) =>
             \E L \in Levels :
                /\ g_taskTable[i].task_level = L
                /\ uxPriority[g_taskTable[i].task_handle]
                      = MLFQ_TOP_PRIORITY_NUMBER - L

(***************************************************************************)
(* C4: outside an updateTaskPriority call, the accountant's quantum_ticks  *)
(* of a registered task at level L is the quantum of L (20 at HIGH, 50 at  *)
(* MEDIUM, 100 at LOW), it is never 0, and the quantum reported by         *)
(* schedulerGetTaskStats is the quantum the tick hook enforces.            *)
(***************************************************************************)
C4_QuantumMatchesLevel ==
    \A i \in Slots :
       (Occupied(i) /\ ~MidUpdate(i)) =>
          LET L == g_taskTable[i].task_level
              snapshot == schedulerGetTaskStats(i, [quantum_ticks |-> 0])
          IN  /\ HasRecord(i)
              /\ RecordOf(i).quantum_ticks = getQuantumForLevel(L)
              /\ RecordOf(i).quantum_ticks # 0
              /\ L = MLFQ_QUEUE_HIGH   => RecordOf(i).quantum_ticks = 20
              /\ L = MLFQ_QUEUE_MEDIUM => RecordOf(i).quantum_ticks = 50
              /\ L = MLFQ_QUEUE_LOW    => RecordOf(i).quantum_ticks = 100
              /\ snapshot[1]
              /\ snapshot[2].quantum_ticks = RecordOf(i).quantum_ticks

\* A task that was demoted to LOW and one that is at HIGH are both registered
\* while the scheduler task sleeps.
C4_Witness ==
    /\ pc = "blocked"
    /\ \E i \in Slots : Occupied(i) /\ g_taskTable[i].task_level = MLFQ_QUEUE_LOW
                        /\ RecordOf(i).quantum_ticks = MLFQ_TIME_SLICE_LOW
    /\ \E i \in Slots : Occupied(i) /\ g_taskTable[i].task_level = MLFQ_QUEUE_HIGH
                        /\ RecordOf(i).quantum_ticks = MLFQ_TIME_SLICE_HIGH

(***************************************************************************)
(* C5: a task's run_ticks never exceeds its quantum_ticks by more than 1.  *)
(***************************************************************************)
C5_RunTicksBounded ==
    \A i \in Slots :
       (g_profilerTable[i].task # NULL /\ g_profilerTable[i].quantum_ticks # 0)
          => g_profilerTable[i].run_ticks <= g_profilerTable[i].quantum_ticks + 1

(***************************************************************************)
(* C6: between two global boosts, and with no promoteInteractiveTask call, *)
(* the level of a registered task never moves back towards HIGH: no step   *)
(* other than a boost or a promotion lowers the ordinal of a stored level. *)
(***************************************************************************)
C6_LevelMonotonic ==
    [][(~BoostStep /\ ~PromoteStep) =>
          \A i \in Slots :
             (Occupied(i) /\ g_taskTable'[i].task_handle = g_taskTable[i].task_handle)
                => g_taskTable'[i].task_level >= g_taskTable[i].task_level]_vars

(***************************************************************************)
(* C7: from the moment performGlobalBoost returns until the scheduler task *)
(* ends that iteration (its vTaskDelay), every occupied slot is at HIGH,   *)
(* its run_ticks is 0 and its quantum_ticks is 20, and the task runs at    *)
(* the HIGH priority.                                                      *)
(***************************************************************************)
C7_PostBoostState ==
    boosted =>
       \A i \in Slots :
          Occupied(i) =>
             /\ g_taskTable[i].task_level = MLFQ_QUEUE_HIGH
             /\ HasRecord(i)
             /\ RecordOf(i).run_ticks = 0
             /\ RecordOf(i).quantum_ticks = 20
             /\ uxPriority[g_taskTable[i].task_handle] = MLFQ_TOP_PRIORITY_NUMBER

\* A boost has just completed over a full table, a boost period after start.
C7_Witness ==
    /\ boosted
    /\ pc \in {"report", "delay"}
    /\ xTickCount >= xBoostPeriod
    /\ \A i \in Slots : Occupied(i)

(***************************************************************************)
(* C8: when ticks keep coming and the kernel keeps scheduling the          *)
(* scheduler task (no registered task is above its priority), a boost      *)
(* that has become due is eventually performed, and it leaves every        *)
(* registered task at HIGH; as ticks keep coming a boost becomes due again *)
(* and again.  The horizon of the model is MaxTick: the boost must be due  *)
(* early enough for the scheduler task's next wake-up to lie within it.    *)
(***************************************************************************)
BoostDue ==
    /\ pc \notin {"main", "start"}
    /\ SinceLastBoost >= xBoostPeriod
    /\ xTickCount + pdMS_TO_TICKS(SchedulerDelayMs) + MaxTasks <= MaxTick

AllBoosted ==
    /\ boosted
    /\ \A i \in Slots : Occupied(i) => g_taskTable[i].task_level = MLFQ_QUEUE_HIGH

C9_HeavyTaskLadder ==
    NoPromotion =>
       \A i \in Slots :
          (g_taskTable[i].task_handle \in Heavy /\ ~MidUpdate(i)) =>
             LET h == g_taskTable[i].task_handle
                 L == g_taskTable[i].task_level
             IN  /\ expiries[h] = 0 => L = MLFQ_QUEUE_HIGH
                 /\ expiries[h] = 1 => L = MLFQ_QUEUE_MEDIUM
                 /\ expiries[h] >= 2 => L = MLFQ_QUEUE_LOW

(***************************************************************************)
(* C10: a registered task that runs 5 ticks and then blocks for 10 ticks   *)
(* is never demoted between two boosts: it stays at HIGH and no expiry of  *)
(* it is ever in the expired queue.  Stated for the time before the first  *)
(* boost is due, with no promoteInteractiveTask call.                      *)
(***************************************************************************)
C10_InteractiveStaysHigh ==
    (NoPromotion /\ xTickCount < xBoostPeriod) =>
       \A i \in Slots :
          g_taskTable[i].task_handle \in Interactive =>
             /\ g_taskTable[i].task_level = MLFQ_QUEUE_HIGH
             /\ \A k \in 1..Len(g_expiredQueue) :
                   g_expiredQueue[k] # g_taskTable[i].task_handle

C12_TableUniqueness ==
    \A i, j \in Slots :
       i # j =>
          /\ (Occupied(i) /\ Occupied(j))
                => g_taskTable[i].task_handle # g_taskTable[j].task_handle
          /\ (g_profilerTable[i].task # NULL /\ g_profilerTable[j].task # NULL)
                => g_profilerTable[i].task # g_profilerTable[j].task

\* A call with a handle that is already in the accountant table was made
\* while a slot was still free.
C12_Witness ==
    /\ lastCall.op \in {"registerTask", "setupTaskStats"}
    /\ lastCall.task # NULL
    /\ ~lastCall.ret
    /\ findTaskIndex(g_profilerTable, lastCall.task) >= 0
    /\ findEmptySlot(g_profilerTable) >= 0
    /\ schedulerSlotOf(g_taskTable, NULL) >= 0

(***************************************************************************)
(* C13: registerTask(t) for a handle the accountant rejects (NULL, or a    *)
(* handle it already holds) changes nothing: no supervisor record (handle, *)
(* level, arrival_tick), no accountant record (task, run_ticks,            *)
(* quantum_ticks) and no kernel priority.                                  *)
(***************************************************************************)
C13_RejectedRegisterNoOp ==
    [][\A h \in Tasks \cup {NULL} :
          (RegisterStep(h) /\ (h = NULL \/ findTaskIndex(g_profilerTable, h) >= 0))
             => /\ g_taskTable' = g_taskTable
                /\ g_profilerTable' = g_profilerTable
                /\ uxPriority' = uxPriority
                /\ ~lastCall'.ret]_vars

\* registerTask was called with a handle that only the accountant holds,
\* with a free supervisor slot: the task is still not in the supervisor table
\* and still has the priority it was created with.
C13_Witness ==
    /\ lastCall.op = "registerTask"
    /\ lastCall.task # NULL
    /\ ~lastCall.ret
    /\ findTaskIndex(g_profilerTable, lastCall.task) >= 0
    /\ schedulerSlotOf(g_taskTable, lastCall.task) < 0
    /\ schedulerSlotOf(g_taskTable, NULL) >= 0
    /\ uxPriority[lastCall.task] = WorkloadCreatePriority

(***************************************************************************)
(* C14: registering when all TICK_PROFILER_MAX_TASKS slots are occupied    *)
(* fails and leaves the state unchanged: setupTaskStats returns false, and *)
(* registerTask changes neither table nor any kernel priority.  A          *)
(* registerTask call is all-or-nothing: either the handle enters both      *)
(* tables or neither table changes.                                        *)
(***************************************************************************)
C14_TableFullNoChange ==
    [][\A h \in Tasks \cup {NULL} :
          RegisterStep(h) =>
             /\ (findEmptySlot(g_profilerTable) < 0 \/ schedulerSlotOf(g_taskTable, NULL) < 0)
                   => /\ ~setupTaskStats(g_profilerTable, h)[1]
                      /\ ~lastCall'.ret
                      /\ g_taskTable' = g_taskTable
                      /\ g_profilerTable' = g_profilerTable
                      /\ uxPriority' = uxPriority
             /\ \/ /\ g_taskTable' = g_taskTable
                   /\ g_profilerTable' = g_profilerTable
                   /\ uxPriority' = uxPriority
                \/ /\ schedulerSlotOf(g_taskTable, h) < 0
                   /\ findTaskIndex(g_profilerTable, h) < 0
                   /\ schedulerSlotOf(g_taskTable', h) >= 0
                   /\ findTaskIndex(g_profilerTable', h) >= 0]_vars

\* registerTask was called for a new handle with both tables full.
C14_Witness ==
    /\ lastCall.op = "registerTask"
    /\ lastCall.task # NULL
    /\ ~lastCall.ret
    /\ findTaskIndex(g_profilerTable, lastCall.task) < 0
    /\ findEmptySlot(g_profilerTable) < 0
    /\ \A i \in Slots : Occupied(i)

(***************************************************************************)
(* C15: immediately after a successful registerTask(t) at tick T,          *)
(* schedulerGetTaskStats for the slot of t returns true with level HIGH,   *)
(* arrival_tick T, run_ticks 0 and quantum_ticks 20.  (registerTask is     *)
(* called from main(), where the tick count T is still 0.)                 *)
(***************************************************************************)
C15_RegisterSnapshotRoundTrip ==
    (lastCall.op = "registerTask" /\ lastCall.ret) =>
       LET i == schedulerSlotOf(g_taskTable, lastCall.task)
           snapshot == schedulerGetTaskStats(i, NoCall)
       IN  /\ i >= 0
           /\ snapshot[1]
           /\ snapshot[2] = [task          |-> lastCall.task,
                             task_level    |-> MLFQ_QUEUE_HIGH,
                             arrival_tick  |-> xTickCount,
                             run_ticks     |-> 0,
                             quantum_ticks |-> 20]

\* A task was registered whose slot in the supervisor table is not its slot
\* in the accountant table.
C15_Witness ==
    /\ lastCall.op = "registerTask"
    /\ lastCall.ret
    /\ schedulerSlotOf(g_taskTable, lastCall.task)
          # findTaskIndex(g_profilerTable, lastCall.task)

(***************************************************************************)
(* C16: setTaskQuantum rejects a quantum of 0, a NULL task and a task the  *)
(* accountant does not hold: it returns false and leaves every accountant  *)
(* record unchanged, the task's previous quantum_ticks and run_ticks       *)
(* included.  Stated on every setTaskQuantum call made from main(), and on *)
(* the function applied to the accountant table of every state the program *)
(* leaves.                                                                 *)
(***************************************************************************)
C16_ZeroQuantumRejected ==
    [][/\ \A h \in Tasks \cup {NULL} :
             /\ setTaskQuantum(g_profilerTable, h, 0) = << FALSE, g_profilerTable >>
             /\ (h = NULL \/ findTaskIndex(g_profilerTable, h) < 0)
                   => \A q \in QuantumChoices :
                         setTaskQuantum(g_profilerTable, h, q) = << FALSE, g_profilerTable >>
       /\ \A h \in Tasks \cup {NULL} : \A q \in QuantumChoices :
             (SetQuantumStep(h, q)
                 /\ (q = 0 \/ h = NULL \/ findTaskIndex(g_profilerTable, h) < 0))
                => /\ ~lastCall'.ret
                   /\ g_profilerTable' = g_profilerTable]_vars

\* setTaskQuantum(t, 0) was called for a task that holds the quantum 20.
C16_Witness ==
    /\ lastCall.op = "setTaskQuantum"
    /\ lastCall.arg = 0
    /\ ~lastCall.ret
    /\ findTaskIndex(g_profilerTable, lastCall.task) >= 0
    /\ g_profilerTable[findTaskIndex(g_profilerTable, lastCall.task)].quantum_ticks
          = MLFQ_TIME_SLICE_HIGH

(***************************************************************************)
(* C17: checkForDemotion on a slot whose level is LOW leaves the level     *)
(* LOW and keeps the kernel priority 3; when its updateTaskPriority call   *)
(* returns, quantum_ticks is 100 and run_ticks is 0.                       *)
(***************************************************************************)
C17_DemotionFromLow ==
    [][/\ \A i \in Slots :
             (DemotionStep /\ i = schedulerSlotOf(g_taskTable, utpTask)
                 /\ g_taskTable[i].task_level = MLFQ_QUEUE_LOW)
                => /\ utpLevel = MLFQ_QUEUE_LOW
                   /\ g_taskTable'[i].task_level = MLFQ_QUEUE_LOW
                   /\ uxPriority'[utpTask] = 3
                   /\ pxCurrentTCB' = SchedHandle
       /\ \A i \in Slots :
             (pc = "utp_reset" /\ pc' = "recv" /\ utpLevel = MLFQ_QUEUE_LOW
                 /\ i = schedulerSlotOf(g_taskTable, utpTask))
                => /\ g_taskTable'[i].task_level = MLFQ_QUEUE_LOW
                   /\ uxPriority'[utpTask] = 3
                   /\ HasRecord(i)
                   /\ g_profilerTable'[findTaskIndex(g_profilerTable, utpTask)]
                         = [task |-> utpTask, run_ticks |-> 0, quantum_ticks |-> 100]]_vars

\* A third expiry of a task has been handled since it was last at HIGH: the
\* second one put it at LOW, the third one found it there.
C17_Witness ==
    /\ NoPromotion
    /\ pc = "recv"
    /\ \E i \in Slots :
          /\ Occupied(i)
          /\ g_taskTable[i].task_handle \in demoted
          /\ expiries[g_taskTable[i].task_handle] >= 3
          /\ g_taskTable[i].task_level = MLFQ_QUEUE_LOW
          /\ uxPriority[g_taskTable[i].task_handle] = 3
          /\ RecordOf(i).run_ticks = 0
          /\ RecordOf(i).quantum_ticks = MLFQ_TIME_SLICE_LOW

(***************************************************************************)
(* C18: for every registered task t and level L, updateTaskPriority(t, L)  *)
(* called twice in a row leaves the same supervisor record, kernel         *)
(* priorities, quantum_ticks and run_ticks (= 0) as calling it once.       *)
(* Stated for the function applied, by the scheduler task, to the tables   *)
(* and priorities of every reachable state.                                *)
(***************************************************************************)
C18_SetLevelIdempotent ==
    \A i \in Slots : \A L \in Levels :
       Occupied(i) =>
          LET t == g_taskTable[i].task_handle
              st == [t |-> g_taskTable, p |-> g_profilerTable, u |-> uxPriority]
          IN  \A once \in {updateTaskPriority(st, SchedHandle, t, L)} :
              \A twice \in {updateTaskPriority(once, SchedHandle, t, L)} :
                 /\ twice = once
                 /\ once.t[i].task_level = L
                 /\ getTaskRuntime(once.p, t) = 0
                 /\ getTaskRuntime(twice.p, t) = 0

\* The scheduler task has just applied a second updateTaskPriority(t, LOW)
\* in a row to a task, and a further expiry of the task is still queued.
C18_Witness ==
    /\ NoPromotion
    /\ pc = "recv"
    /\ g_expiredQueue # << >>
    /\ \E i \in Slots :
          /\ Occupied(i)
          /\ Head(g_expiredQueue) = g_taskTable[i].task_handle
          /\ expiries[g_taskTable[i].task_handle] = 3
          /\ g_taskTable[i].task_level = MLFQ_QUEUE_LOW
          /\ RecordOf(i).run_ticks = 0

(***************************************************************************)
(* C19: an entry of the expiry queue whose handle is not in the supervisor *)
(* table is drained by the scheduler task without any state change: no     *)
(* level, kernel priority, quantum_ticks or run_ticks of any task changes, *)
(* and the loop goes on with the next entry.                               *)
(***************************************************************************)
C19_StaleEntryDrained ==
    [][(/\ pc = "recv"
        /\ g_expiredQueue # << >>
        /\ g_expiredQueue' = Tail(g_expiredQueue)
        /\ schedulerSlotOf(g_taskTable, Head(g_expiredQueue)) < 0)
          => /\ g_taskTable' = g_taskTable
             /\ g_profilerTable' = g_profilerTable
             /\ uxPriority' = uxPriority
             /\ pxCurrentTCB' = SchedHandle
             /\ pc' = "recv"]_vars

\* A task that only the accountant holds has used up its quantum, so the tick
\* hook has queued its handle, and the scheduler task has emptied the queue.
C19_Witness ==
    /\ pc = "delay"
    /\ g_expiredQueue = << >>
    /\ \E k \in Slots :
          /\ g_profilerTable[k].task # NULL
          /\ schedulerSlotOf(g_taskTable, g_profilerTable[k].task) < 0
          /\ g_profilerTable[k].quantum_ticks # 0
          /\ g_profilerTable[k].run_ticks >= g_profilerTable[k].quantum_ticks

\* The tick hook finds the running task's record past its quantum, so it
\* calls xQueueSendFromISR.
HookEnqueues == tickHookExpired(g_profilerTable, pxCurrentTCB)

ExpiredQueueFull == Len(g_expiredQueue) >= TICK_PROFILER_EXPIRED_QUEUE_LENGTH

\* C20: when the expiry queue is full and the tick hook tries to enqueue the
\* running task, the new entry is dropped: the queue keeps the entries it had,
\* in the same order, and never holds more than its length. The tick still
\* completes (the hook does not block) and the running task's run_ticks is
\* still incremented on that tick.
C20_FullQueueDropsNew ==
    [][(xTickCount' # xTickCount /\ ExpiredQueueFull /\ HookEnqueues)
          => /\ g_expiredQueue' = g_expiredQueue
             /\ Len(g_expiredQueue') <= TICK_PROFILER_EXPIRED_QUEUE_LENGTH
             /\ xTickCount' = (xTickCount + 1) % UInt32
             /\ LET i == tickHookSlot(g_profilerTable, pxCurrentTCB)
                IN  g_profilerTable'[i].run_ticks
                        = (g_profilerTable[i].run_ticks + 1) % UInt32]_vars

\* The queue is full with entries of two tasks, and one of them has run past
\* its quantum on more ticks than the queue has places since its record was
\* last reset: at least one of its enqueues met a full queue.
C20_Witness ==
    /\ ExpiredQueueFull
    /\ \E a, b \in 1..Len(g_expiredQueue) : g_expiredQueue[a] # g_expiredQueue[b]
    /\ \E k \in Slots :
          /\ g_profilerTable[k].task # NULL
          /\ g_profilerTable[k].quantum_ticks # 0
          /\ g_profilerTable[k].run_ticks
                >= g_profilerTable[k].quantum_ticks + TICK_PROFILER_EXPIRED_QUEUE_LENGTH

(***************************************************************************)
(* C21: in every reachable state the kernel priority of every registered   *)
(* task is strictly below the priority of the scheduler task, which is     *)
(* MLFQ_TOP_PRIORITY_NUMBER + 1 = 6; this includes priorities computed by  *)
(* the unsigned subtraction 5U - level from the stored level.              *)
(***************************************************************************)
C21_ManagedBelowSupervisor ==
    /\ uxPriority[SchedHandle] = MLFQ_TOP_PRIORITY_NUMBER + 1
    /\ \A i \in Slots :
          Occupied(i) => uxPriority[g_taskTable[i].task_handle] < uxPriority[SchedHandle]

\* The step is a tick interrupt.
TickStep == xTickCount' # xTickCount

\* updateTaskPriority has returned from setTaskQuantum and has not yet called
\* resetTaskRuntime.
BetweenQuantumAndReset == pc = "utp_reset"

(***************************************************************************)
(* C22: updateTaskPriority installs the new quantum and clears run_ticks   *)
(* atomically with respect to the tick hook.  No tick is accounted to the  *)
(* task between setTaskQuantum and resetTaskRuntime: a tick that arrives   *)
(* there leaves the task's run_ticks as it is and does not enqueue the     *)
(* task, so the run_ticks from before the reset is never compared with the *)
(* new quantum.                                                            *)
(***************************************************************************)
C22_UpdateAtomicToTick ==
    [][(TickStep /\ BetweenQuantumAndReset /\ findTaskIndex(g_profilerTable, utpTask) >= 0)
          => LET i == findTaskIndex(g_profilerTable, utpTask)
             IN  /\ g_profilerTable'[i].run_ticks = g_profilerTable[i].run_ticks
                 /\ g_expiredQueue' # Append(g_expiredQueue, utpTask)]_vars

\* What the claim says a promoteInteractiveTask(h) call does to the tables and
\* the priorities.  A level outside HIGH, MEDIUM, LOW is not a case of the claim.
PromoteAsClaimed(h) ==
    LET i == schedulerSlotOf(g_taskTable, h)
        registered == h # NULL /\ i >= 0
        L == g_taskTable[i].task_level
        k == findTaskIndex(g_profilerTable, h)
    IN  IF registered /\ L \in {MLFQ_QUEUE_MEDIUM, MLFQ_QUEUE_LOW}
        THEN /\ g_taskTable' = [g_taskTable EXCEPT ![i].task_level = L - 1]
             /\ uxPriority' = [uxPriority EXCEPT
                                  ![h] = IF L = MLFQ_QUEUE_MEDIUM THEN 5 ELSE 4]
             /\ k >= 0
             /\ g_profilerTable' = [g_profilerTable EXCEPT
                                       ![k].run_ticks = 0,
                                       ![k].quantum_ticks =
                                           IF L = MLFQ_QUEUE_MEDIUM THEN 20 ELSE 50]
        ELSE IF ~registered \/ L = MLFQ_QUEUE_HIGH
        THEN /\ g_taskTable' = g_taskTable
             /\ uxPriority' = uxPriority
             /\ g_profilerTable' = g_profilerTable
        ELSE TRUE

C24_SupervisorSubsetOfAccountant ==
    \A i \in Slots :
       Occupied(i) => \E k \in Slots : g_profilerTable[k].task = g_taskTable[i].task_handle

\* The kernel runs, the accountant table is full, and the supervisor holds
\* one of its tasks but not the other: a registerTask call was refused by
\* setupTaskStats or never made for that task.
C24_Witness ==
    /\ pc = "blocked"
    /\ xTickCount > 0
    /\ \E i \in Slots : Occupied(i)
    /\ \A k \in Slots : g_profilerTable[k].task # NULL
    /\ \E k \in Slots : schedulerSlotOf(g_taskTable, g_profilerTable[k].task) < 0

(***************************************************************************)
(* C25: on every tick, with c the task that was running: if c has an       *)
(* accountant record, its run_ticks grows by exactly 1 and is not reset;   *)
(* c is sent to the expiry queue if and only if, after the increment, its  *)
(* quantum_ticks is not 0 and run_ticks >= quantum_ticks (the send is      *)
(* best effort: a full queue stays as it is).  If c has no record, neither *)
(* the accountant table nor the queue changes.                             *)
(***************************************************************************)
C25_TickAccounting ==
    [][TickStep =>
         LET c == pxCurrentTCB
             k == findTaskIndex(g_profilerTable, c)
         IN  IF k >= 0
             THEN /\ g_profilerTable'[k].run_ticks = g_profilerTable[k].run_ticks + 1
                  /\ LET expired == /\ g_profilerTable'[k].quantum_ticks # 0
                                    /\ g_profilerTable'[k].run_ticks
                                          >= g_profilerTable'[k].quantum_ticks
                     IN  g_expiredQueue' =
                            IF expired /\ Len(g_expiredQueue) < TICK_PROFILER_EXPIRED_QUEUE_LENGTH
                            THEN Append(g_expiredQueue, c)
                            ELSE g_expiredQueue
             ELSE /\ g_profilerTable' = g_profilerTable
                  /\ g_expiredQueue' = g_expiredQueue]_vars

\* Ticks have been charged to a task whose quantum is 0, which is not in the
\* queue, and a task with a quantum has reached it exactly and is in the queue.
C25_Witness ==
    /\ \E k \in Slots :
          /\ g_profilerTable[k].task # NULL
          /\ g_profilerTable[k].quantum_ticks = 0
          /\ g_profilerTable[k].run_ticks > 0
          /\ \A n \in 1 .. Len(g_expiredQueue) : g_expiredQueue[n] # g_profilerTable[k].task
    /\ \E k \in Slots :
          /\ g_profilerTable[k].task # NULL
          /\ g_profilerTable[k].quantum_ticks # 0
          /\ g_profilerTable[k].run_ticks = g_profilerTable[k].quantum_ticks
          /\ \E n \in 1 .. Len(g_expiredQueue) : g_expiredQueue[n] = g_profilerTable[k].task

(***************************************************************************)
(* C26: frame of the tick hook.  A tick changes, of the two tables, at     *)
(* most the run_ticks field of the one accountant record of the task that  *)
(* was running: no task field and no quantum_ticks field changes, no other *)
(* record's run_ticks changes, and the supervisor table (handles, levels,  *)
(* arrival ticks) and the registered scheduler handle stay as they are.    *)
(***************************************************************************)
C26_TickFrame ==
    [][TickStep =>
         /\ g_taskTable' = g_taskTable
         /\ g_schedulerTaskHandle' = g_schedulerTaskHandle
         /\ \A k \in Slots :
               /\ g_profilerTable'[k].task = g_profilerTable[k].task
               /\ g_profilerTable'[k].quantum_ticks = g_profilerTable[k].quantum_ticks
               /\ (g_profilerTable[k].task # pxCurrentTCB)
                     => g_profilerTable'[k].run_ticks = g_profilerTable[k].run_ticks]_vars

\* Two tasks have records; every tick so far was charged to one of them and
\* none to the other.
C26_Witness ==
    /\ xTickCount >= 2
    /\ \E k, j \in Slots :
          /\ g_profilerTable[k].task # NULL
          /\ g_profilerTable[j].task # NULL
          /\ g_profilerTable[k].run_ticks = xTickCount
          /\ g_profilerTable[j].run_ticks = 0

(***************************************************************************)
(* C27: in every reachable state the expiry queue holds at most one entry  *)
(* per task: one exhausted quantum gives one expiry event, not one entry   *)
(* for every further tick the task runs before the scheduler task handles  *)
(* it.                                                                     *)
(***************************************************************************)
C27_OneEntryPerTask ==
    \A a, b \in 1 .. Len(g_expiredQueue) :
       (a # b) => g_expiredQueue[a] # g_expiredQueue[b]

(***************************************************************************)
(* C28: two global boosts are at least a boost period apart.  The          *)
(* scheduler task enters performGlobalBoost only when at least             *)
(* xBoostPeriod ticks have passed since the tick recorded in               *)
(* xLastBoostTime (at the previous boost, or at the start of the scheduler *)
(* task), it stores the tick of the boost in xLastBoostTime at each boost, *)
(* and nothing else writes xLastBoostTime.                                 *)
(***************************************************************************)
C28_BoostsApart ==
    [][/\ (pc = "recv" /\ pc' = "boost")
             => /\ (xNow' - xLastBoostTime) % UInt32 >= xBoostPeriod
                /\ xTickCount >= xLastBoostTime + xBoostPeriod
       /\ (pc' = "boost") => (xNow' - xLastBoostTime') % UInt32 >= xBoostPeriod
       /\ (pc = "report" /\ pc' # "report") => xLastBoostTime' = xNow
       /\ (xLastBoostTime' # xLastBoostTime) => pc \in {"start", "report"}]_vars

\* The second boost of a run: the scheduler task has boosted every task and is
\* about to record the tick, and the tick on record is that of an earlier boost.
C28_Witness ==
    /\ pc = "report"
    /\ boosted
    /\ xLastBoostTime >= xBoostPeriod
    /\ xNow >= xLastBoostTime + xBoostPeriod

\* The sizes of a default build (tick_profiler.h): 16 tasks, a queue of 32.
DefaultMaxTasks == 16
DefaultQueueLength == DefaultMaxTasks * 2

\* Sends of the task of accountant slot k that no receive has answered: the
\* hook calls xQueueSendFromISR on every tick on which the task runs with
\* run_ticks >= quantum_ticks, and the scheduler task clears run_ticks when it
\* handles an entry of the task.
SendsPending(k) ==
    IF /\ g_profilerTable[k].task # NULL
       /\ g_profilerTable[k].quantum_ticks # 0
       /\ g_profilerTable[k].run_ticks >= g_profilerTable[k].quantum_ticks
    THEN g_profilerTable[k].run_ticks - g_profilerTable[k].quantum_ticks + 1
    ELSE 0

RECURSIVE SendsPendingFrom(_)
SendsPendingFrom(k) ==
    IF k >= MaxTasks THEN 0 ELSE SendsPending(k) + SendsPendingFrom(k + 1)

(***************************************************************************)
(* C29: with the sizes of a default build (a queue of 2 x 16 = 32 entries, *)
(* at most one send per tick, the scheduler task draining the queue every  *)
(* 10 ticks) the expiry queue never becomes full: the sends that the       *)
(* scheduler task has not yet answered are always fewer than 32, so none   *)
(* is dropped.                                                             *)
(***************************************************************************)
C29_DefaultQueueNeverFull == SendsPendingFrom(0) < DefaultQueueLength

\* Entries of task t in the expiry queue.
EntriesOf(t) == Cardinality({n \in 1 .. Len(g_expiredQueue) : g_expiredQueue[n] = t})

\* The accountant record of task t is at or past its quantum.
ExpiredTask(t) ==
    /\ findTaskIndex(g_profilerTable, t) >= 0
    /\ SendsPending(findTaskIndex(g_profilerTable, t)) > 0

\* The scheduler task has received an entry of t and has not yet cleared
\* t's run_ticks.
InHand(t) == IF InUpdateTaskPriority /\ utpRet = "recv" /\ utpTask = t THEN 1 ELSE 0

\* A send of task t met a full queue: the queue is full, and more sends of t
\* are pending than the queue and the scheduler task hold entries of t.  The
\* horizon leaves room for two more polls of the scheduler task.
ExpiryDropped(t) ==
    /\ ExpiredQueueFull
    /\ ExpiredTask(t)
    /\ SendsPending(findTaskIndex(g_profilerTable, t)) > EntriesOf(t) + InHand(t)
    /\ xTickCount + 2 * pdMS_TO_TICKS(SchedulerDelayMs) + MaxTasks <= MaxTick

\* The scheduler task has completed a demotion of t in this iteration:
\* checkForDemotion was applied to t and updateTaskPriority has returned.
DemotionDone(t) == t \in demoted /\ InHand(t) = 0

\* A tick charged to a task that was already at or past its quantum, with
\* room in the queue, sends the task again.
ResendStep ==
    (TickStep /\ ExpiredTask(pxCurrentTCB) /\ ~ExpiredQueueFull)
       => g_expiredQueue' = Append(g_expiredQueue, pxCurrentTCB)

MaxApiCalls == 1

ApiMaxTick == MLFQ_TIME_SLICE_HIGH + pdMS_TO_TICKS(SchedulerDelayMs)

\* A running workload task calls updateTaskPriority(task, newLevel).
updateTaskPriority_call(task, newLevel) ==
    /\ pc \notin {"main", "utp_set", "utp_quantum", "utp_reset"}
    /\ pxCurrentTCB \in Tasks
    /\ nCalls < MaxApiCalls
    /\ nCalls' = nCalls + 1
    /\ lastCall' = [op |-> "updateTaskPriority", task |-> task, arg |-> newLevel,
                    ret |-> FALSE]
    /\ LET st == updateTaskPriority([t |-> g_taskTable, p |-> g_profilerTable,
                                     u |-> uxPriority], pxCurrentTCB, task, newLevel)
       IN  /\ g_taskTable' = st.t
           /\ g_profilerTable' = st.p
           /\ uxPriority' = st.u
           /\ pxCurrentTCB' = SelectAfterPrioritySet(pxCurrentTCB, task,
                                  ReadyTasks(sleep, SupReady(pc)), st.u)
    /\ UNCHANGED << g_expiredQueue, g_schedulerTaskHandle, xTickCount, pc,
                    xLastBoostTime, xNow, table_index, utpTask, utpLevel, utpRet,
                    xDelay, burst, sleep, supTicks, boosted, expiries,
                    demoted, configMAX_PRIORITIES, enqueuedAt >>

\* A running workload task calls checkForDemotion(index).
checkForDemotion_call(index) ==
    /\ pc \notin {"main", "utp_set", "utp_quantum", "utp_reset"}
    /\ pxCurrentTCB \in Tasks
    /\ nCalls < MaxApiCalls
    /\ nCalls' = nCalls + 1
    /\ lastCall' = [op |-> "checkForDemotion",
                    task |-> g_taskTable[index].task_handle, arg |-> index,
                    ret |-> FALSE]
    /\ LET task == g_taskTable[index].task_handle
           st == updateTaskPriority([t |-> g_taskTable, p |-> g_profilerTable,
                                     u |-> uxPriority], pxCurrentTCB, task,
                                    checkForDemotionLevel(g_taskTable[index].task_level))
       IN  /\ g_taskTable' = st.t
           /\ g_profilerTable' = st.p
           /\ uxPriority' = st.u
           /\ pxCurrentTCB' = SelectAfterPrioritySet(pxCurrentTCB, task,
                                  ReadyTasks(sleep, SupReady(pc)), st.u)
    /\ UNCHANGED << g_expiredQueue, g_schedulerTaskHandle, xTickCount, pc,
                    xLastBoostTime, xNow, table_index, utpTask, utpLevel, utpRet,
                    xDelay, burst, sleep, supTicks, boosted, expiries,
                    demoted, configMAX_PRIORITIES, enqueuedAt >>

ApiNext ==
    \/ \E h \in Tasks \cup {NULL} : registerTask(h)
    \/ vTaskStartScheduler
    \/ (xTickCount < ApiMaxTick /\ Tick)
    \/ schedulerTask_start
    \/ schedulerTask_receive
    \/ updateTaskPriority_set
    \/ updateTaskPriority_quantum
    \/ updateTaskPriority_reset
    \/ schedulerTask_boostCheck
    \/ schedulerTask_delay
    \/ \E h \in Tasks \cup {NULL}, l \in Levels : updateTaskPriority_call(h, l)
    \/ \E i \in Slots : checkForDemotion_call(i)

ApiSpec == Init /\ [][ApiNext]_vars

\* A direct call of updateTaskPriority or checkForDemotion is being made.
ApiStep ==
    /\ pc # "main"
    /\ nCalls' # nCalls
    /\ lastCall'.op \in {"updateTaskPriority", "checkForDemotion"}

\* The handle is in no slot of the supervisor table (NULL is in none).
NotInTaskTable(h) == h = NULL \/ \A i \in Slots : g_taskTable[i].task_handle # h

\* C31: updateTaskPriority called with a handle that is in no slot of the
\* supervisor table (NULL included), and checkForDemotion called on an empty
\* slot, change nothing: the supervisor table, the accountant table and every
\* task's kernel priority are as before the call.
C31_UnknownHandleChangesNothing ==
    [][(ApiStep /\ NotInTaskTable(lastCall'.task))
          => /\ g_taskTable' = g_taskTable
             /\ g_profilerTable' = g_profilerTable
             /\ uxPriority' = uxPriority]_vars

(***************************************************************************)
(* SliceSpec: the application with the boost period of scheduler.h         *)
(* (MLFQ_BOOST_PERIOD_MS, 3000 ms), over a horizon long enough for a task  *)
(* to use up the quantum it was given by a demotion. No boost falls due    *)
(* within the horizon.                                                     *)
(***************************************************************************)
MLFQ_BOOST_PERIOD_MS == 3000

SliceMaxTick == 360

SliceMaxSupTicks == 4

SliceNext ==
    \/ \E h \in Tasks \cup {NULL} : registerTask(h)
    \/ vTaskStartScheduler
    \/ TickWithin(SliceMaxTick, SliceMaxSupTicks)
    \/ schedulerTask_start
    \/ schedulerTask_receive
    \/ updateTaskPriority_set
    \/ updateTaskPriority_quantum
    \/ updateTaskPriority_reset
    \/ schedulerTask_boostCheckEvery(pdMS_TO_TICKS(MLFQ_BOOST_PERIOD_MS))
    \/ schedulerTask_delay

SliceSpec == Init /\ [][SliceNext]_vars

\* The scheduler task blocks in the vTaskDelay that ends its iteration.
DelayStep == pc = "delay" /\ pc' = "blocked"

\* C32: whenever the scheduler task blocks in its end-of-iteration delay, the
\* expiry queue is empty: what was enqueued before the drain ended has been
\* dequeued, and nothing is enqueued between the drain and the delay.
C32_QueueEmptyAtDelay ==
    [][DelayStep => g_expiredQueue' = << >>]_vars

\* The scheduler task has woken out of its delay and has not blocked again.
SupervisorAwake == pc \notin {"main", "blocked"}

\* C33: from the scheduler task's waking out of its delay until it blocks
\* again, the scheduler task is the running task and a tick is attributed to
\* it alone: the tick changes no record of the accountant table (no managed
\* task's run_ticks) and enqueues no expiry.
C33_AwakeTicksChargeNoTask ==
    [][(TickStep /\ SupervisorAwake)
          => /\ pxCurrentTCB = SchedHandle
             /\ g_profilerTable' = g_profilerTable
             /\ g_expiredQueue' = g_expiredQueue]_vars

\* Ticks since the k-th expiry that is enqueued and not yet handled was sent.
AgeOf(k) == (xTickCount - enqueuedAt[k]) % UInt32

\* C34: bounded response to expiry: every handle the tick hook enqueues is
\* dequeued and handled by the scheduler task within one sleep period of the
\* scheduler task (10 ticks) of being enqueued: no entry that is still in the
\* queue, or received and not yet handled, is older than that.
C34_ExpiryHandledWithinPeriod ==
    \A k \in DOMAIN enqueuedAt : AgeOf(k) <= pdMS_TO_TICKS(SchedulerDelayMs)

(***************************************************************************)
(* WrapSpec: the application started WrapLead ticks before the tick        *)
(* counter wraps (the kernel's counter is a TickType_t and starts at       *)
(* configINITIAL_TICK_COUNT), run for WrapMaxTick ticks, so that the first *)
(* boost period contains the wrap.                                         *)
(***************************************************************************)
WrapLead == 25

WrapMaxTick == 75

\* Ticks since the start of the run, counted without wrapping.
TicksSinceStart(xTime) == (xTime + WrapLead) % UInt32

WrapInit ==
    /\ g_taskTable = [i \in Slots |->
           [task_handle |-> NULL, task_level |-> MLFQ_QUEUE_HIGH, arrival_tick |-> 0]]
    /\ g_profilerTable = [i \in Slots |->
           [task |-> NULL, run_ticks |-> 0, quantum_ticks |-> 0]]
    /\ g_expiredQueue = << >>
    /\ enqueuedAt = << >>
    /\ g_schedulerTaskHandle = NULL
    /\ xTickCount = UInt32 - WrapLead
    /\ uxPriority = [h \in Tasks \cup {SchedHandle} |->
           IF h = SchedHandle THEN MLFQ_TOP_PRIORITY_NUMBER + 1 ELSE WorkloadCreatePriority]
    /\ pxCurrentTCB = MainContext
    /\ pc = "main"
    /\ xLastBoostTime = 0
    /\ xNow = 0
    /\ table_index = 0
    /\ utpTask = NULL
    /\ utpLevel = 0
    /\ utpRet = "none"
    /\ xDelay = 0
    /\ burst = [h \in Tasks |-> 0]
    /\ sleep = [h \in Tasks |-> 0]
    /\ nCalls = 0
    /\ supTicks = 0
    /\ boosted = FALSE
    /\ expiries = [h \in Tasks |-> 0]
    /\ demoted = {}
    /\ lastCall = NoCall
    /\ configMAX_PRIORITIES \in MaxPrioritiesChoices

WrapNext ==
    \/ \E h \in Tasks \cup {NULL} : registerTask(h)
    \/ vTaskStartScheduler
    \/ (TicksSinceStart(xTickCount) < WrapMaxTick /\ TickWithin(UInt32, MaxSupTicks))
    \/ schedulerTask_start
    \/ schedulerTask_receive
    \/ updateTaskPriority_set
    \/ updateTaskPriority_quantum
    \/ updateTaskPriority_reset
    \/ schedulerTask_boostCheck
    \/ performGlobalBoost
    \/ schedulerTask_report
    \/ schedulerTask_delay

WrapSpec == WrapInit /\ [][WrapNext]_vars

\* The scheduler task makes its boost test.
BoostTestStep == pc = "recv" /\ pc' \in {"boost", "delay"}

\* Ticks that have passed since the tick on record in xLastBoostTime, counted
\* without wrapping.
ElapsedSinceBoost == TicksSinceStart(xTickCount) - TicksSinceStart(xLastBoostTime)

\* C35: the boost test is right across a wrap of the tick counter: because
\* xNow - xLastBoostTime is computed modulo the width of the counter, the
\* scheduler task starts a boost exactly when at least a boost period of
\* ticks has passed since the tick on record, whether or not the counter has
\* wrapped in between: a boost is neither started early nor withheld.
C35_BoostTestAcrossWrap ==
    [][BoostTestStep => ((pc' = "boost") <=> (ElapsedSinceBoost >= xBoostPeriod))]_vars

\* A boost is started after the tick counter has wrapped since the tick on
\* record.
C35_Witness == pc = "boost" /\ xNow < xLastBoostTime

====
